---- MODULE Spec2Model ----
(***************************************************************************)
(* The two grid wave solvers of go-wave:                                   *)
(*   variant 16  src/_mainv16-.go  height + velocity fields                *)
(*   variant 15  src/_mainv15.go   current + previous height snapshots     *)
(* Both own a WaveGrid with a static boolean mask; addWave injects an      *)
(* impulse, update advances the field by one time step.                    *)
(*                                                                         *)
(* float64 values are modelled as exact rationals, never rounded:          *)
(*   variant 16 keeps integers counting units of 1/Unit16 (the only        *)
(*   division of update is by the neighbour count 4, waveSpeed and damping *)
(*   are 1);                                                               *)
(*   variant 15 keeps signed arbitrary-precision integers counting units   *)
(*   of 1/Unit15 (each cell update multiplies by 199/200 and 1/16).        *)
(* The 1200 x 800 lattice is scaled down to gridWidth x gridHeight.        *)
(* The analytical variants (src/_mainv1.go, _mainv2.go, _mainx10.go) are   *)
(* modelled by their click handling, at the end of the module.             *)
(***************************************************************************)
EXTENDS Integers, Sequences, FiniteSets, TLC

VARIABLES variant, mask, height, velocity, current, previous, calls, settled, probe,
          frame, screen, pressed, waveSources, inputs

vars == <<variant, mask, height, velocity, current, previous, calls, settled, probe,
          frame, screen, pressed, waveSources, inputs>>

(* ------------------------------ bounds -------------------------------- *)
gridWidth == 5
gridHeight == 5
MaxWaves == 2
MaxUpdates == 2
ExciteRadius == 2

(* ---------------------------- the lattice ----------------------------- *)
Rows == 0 .. (gridHeight - 1)
Cols == 0 .. (gridWidth - 1)

InLattice(x, y) == x >= 0 /\ x < gridWidth /\ y >= 0 /\ y < gridHeight

IsBorder(x, y) == x = 0 \/ y = 0 \/ x = gridWidth - 1 \/ y = gridHeight - 1

Abs(n) == IF n < 0 THEN -n ELSE n

\* The squared radii of the circular shapes the mask is built from.
MaskRadii2 == {1, 2, 5, 2 * gridWidth * gridWidth}

\* initializeMask: mask[y][x] = sqrt(dx*dx + dy*dy) < radius, the centre being
\* the middle of the screen.  Both sides are non-negative, so the comparison
\* is made on the squares.
initializeMask(radius2) ==
    [y \in Rows |-> [x \in Cols |->
        LET dx == x - (gridWidth \div 2)
            dy == y - (gridHeight \div 2)
        IN  dx * dx + dy * dy < radius2]]

(* ------------------------- exact arithmetic --------------------------- *)
RECURSIVE Pow(_, _)
Pow(b, n) == IF n = 0 THEN 1 ELSE b * Pow(b, n - 1)

\* floor of the square root
ISqrt(n) == CHOOSE k \in 0 .. n : k * k <= n /\ (k + 1) * (k + 1) > n

\* Fixed-point resolution of math.Sqrt and of the energy it feeds.
DistPrec == 10 * 10
EnergyPrec == 10 * 10

\* Variant 16: a field value v stands for the real v / Unit16.  Every impulse
\* is a multiple of 4^MaxUpdates units, so each of the at most MaxUpdates
\* divisions by the neighbour count is exact.
Unit16 == EnergyPrec * Pow(4, MaxUpdates)

(* ------------- exact arithmetic on integers of any size --------------- *)
\* A magnitude is a sequence of limbs in 0 .. Base-1, least significant
\* first, with no leading (last) zero limb; << >> is zero.  Base and the small
\* factors are chosen so that no limb operation leaves 32 bits.
Base == 10 * 1000 * 1000

Limb(a, i) == IF i <= Len(a) THEN a[i] ELSE 0

\* a without its leading zero limbs
Strip(a) ==
    LET used == {i \in 1 .. Len(a) : a[i] # 0}
    IN  IF used = {} THEN << >>
        ELSE SubSeq(a, 1, CHOOSE i \in used : \A j \in used : j <= i)

RECURSIVE MagCmpFrom(_, _, _)
MagCmpFrom(a, b, i) ==
    IF i = 0 THEN 0
    ELSE IF a[i] < b[i] THEN -1
    ELSE IF a[i] > b[i] THEN 1
    ELSE MagCmpFrom(a, b, i - 1)

\* -1, 0 or 1 as a < b, a = b or a > b
MagCmp(a, b) ==
    IF Len(a) < Len(b) THEN -1
    ELSE IF Len(a) > Len(b) THEN 1
    ELSE MagCmpFrom(a, b, Len(a))

\* The limb loops below keep their state in one sequence acc: the limbs
\* produced so far, least significant first, and on top of them the running
\* carry (borrow, remainder).
MagAddStep(a, b, acc) ==
    LET i == Len(acc)
        s == Limb(a, i) + Limb(b, i) + acc[i]
    IN  [acc EXCEPT ![i] = s % Base] \o << s \div Base >>

RECURSIVE MagAddFrom(_, _, _)
MagAddFrom(a, b, acc) ==
    IF Len(acc) > Len(a) /\ Len(acc) > Len(b)
    THEN Strip(acc)
    ELSE MagAddFrom(a, b, MagAddStep(a, b, acc))

MagAdd(a, b) == MagAddFrom(a, b, << 0 >>)

MagSubStep(a, b, acc) ==
    LET i == Len(acc)
        s == a[i] - Limb(b, i) - acc[i]
    IN  [acc EXCEPT ![i] = s % Base] \o << IF s < 0 THEN 1 ELSE 0 >>

RECURSIVE MagSubFrom(_, _, _)
MagSubFrom(a, b, acc) ==
    IF Len(acc) > Len(a)
    THEN Strip(acc)
    ELSE MagSubFrom(a, b, MagSubStep(a, b, acc))

\* a - b, for a >= b
MagSub(a, b) == MagSubFrom(a, b, << 0 >>)

MagMulSmallStep(a, k, acc) ==
    LET i == Len(acc)
        p == a[i] * k + acc[i]
    IN  [acc EXCEPT ![i] = p % Base] \o << p \div Base >>

RECURSIVE MagMulSmallFrom(_, _, _)
MagMulSmallFrom(a, k, acc) ==
    IF Len(acc) > Len(a)
    THEN Strip(acc)
    ELSE MagMulSmallFrom(a, k, MagMulSmallStep(a, k, acc))

\* a * k, for 0 <= k and k * Base below 2^31
MagMulSmall(a, k) ==
    IF k = 0 \/ a = << >> THEN << >> ELSE MagMulSmallFrom(a, k, << 0 >>)

\* Division runs from the most significant limb down: acc holds the
\* running remainder followed by the quotient limbs produced so far.
MagDivSmallStep(a, k, acc) ==
    LET c == Head(acc) * Base + a[Len(a) + 1 - Len(acc)]
    IN  << c % k, c \div k >> \o Tail(acc)

RECURSIVE MagDivSmallFrom(_, _, _)
MagDivSmallFrom(a, k, acc) ==
    IF Len(acc) > Len(a)
    THEN [quot |-> Strip(Tail(acc)), rem |-> Head(acc)]
    ELSE MagDivSmallFrom(a, k, MagDivSmallStep(a, k, acc))

\* quotient and remainder of a by k, for 0 < k and k * Base below 2^31
MagDivSmall(a, k) == MagDivSmallFrom(a, k, << 0 >>)

\* a * n for one limb n, by Horner's rule on the base-100 digits of n
RECURSIVE MagMulLimb(_, _)
MagMulLimb(a, n) ==
    IF n = 0 THEN << >>
    ELSE MagAdd(MagMulSmall(MagMulLimb(a, n \div 100), 100), MagMulSmall(a, n % 100))

RECURSIVE MagMulFrom(_, _, _, _)
MagMulFrom(a, b, i, acc) ==
    IF i > Len(b)
    THEN acc
    ELSE MagMulFrom(a, b, i + 1,
             MagAdd(acc, IF b[i] = 0 THEN << >>
                         ELSE [j \in 1 .. (i - 1) |-> 0] \o MagMulLimb(a, b[i])))

MagMul(a, b) == IF a = << >> THEN << >> ELSE MagMulFrom(a, b, 1, << >>)

\* A signed integer: sign and magnitude; zero is never negative.
BigZero == [neg |-> FALSE, mag |-> << >>]

Big(neg, mag) == [neg |-> neg /\ mag # << >>, mag |-> mag]

BigNeg(p) == Big(~p.neg, p.mag)

BigAdd(p, q) ==
    IF p.neg = q.neg
    THEN Big(p.neg, MagAdd(p.mag, q.mag))
    ELSE IF MagCmp(p.mag, q.mag) >= 0
         THEN Big(p.neg, MagSub(p.mag, q.mag))
         ELSE Big(q.neg, MagSub(q.mag, p.mag))

BigSub(p, q) == BigAdd(p, BigNeg(q))

\* p * k for an integer k with |k| * Base below 2^31
BigMulInt(p, k) == Big(p.neg # (k < 0), MagMulSmall(p.mag, Abs(k)))

\* p / k for 0 < k and k * Base below 2^31; the division is exact wherever the model uses it
\* (see Exact15).
BigDivInt(p, k) == Big(p.neg, MagDivSmall(p.mag, k).quot)

BigDivides(k, p) == MagDivSmall(p.mag, k).rem = 0

BigMul(p, q) == Big(p.neg # q.neg, MagMul(p.mag, q.mag))

BigLeq(p, q) ==
    IF p.neg # q.neg THEN p.neg
    ELSE IF p.neg THEN MagCmp(p.mag, q.mag) >= 0
    ELSE MagCmp(p.mag, q.mag) <= 0

\* (j * k)^n, for j, k with j * Base and k * Base below 2^31
\* st.acc = (j * k)^(n - st.left)
RECURSIVE BigPowFrom(_, _, _)
BigPowFrom(j, k, st) ==
    IF st.left = 0 THEN st.acc
    ELSE BigPowFrom(j, k, [left |-> st.left - 1,
                           acc  |-> BigMulInt(BigMulInt(st.acc, j), k)])

BigPow(j, k, n) == BigPowFrom(j, k, [left |-> n, acc |-> Big(FALSE, << 1 >>)])

(* --------------------- variant 16: src/_mainv16-.go ------------------- *)
waveSpeed16 == 1
damping16 == 1
ImpulseStrength16 == 40

ZeroField == [y \in Rows |-> [x \in Cols |-> 0]]

\* energy := 40.0 * (1 - dist/radius) * (1 - dist/radius), dist = Sqrt(dx*dx+dy*dy)
Energy16(dx, dy) ==
    LET dist == ISqrt((dx * dx + dy * dy) * DistPrec * DistPrec)
        rad  == ExciteRadius * DistPrec
    IN  ((ImpulseStrength16 * EnergyPrec * (rad - dist) * (rad - dist)) \div (rad * rad))
            * Pow(4, MaxUpdates)

\* An impulse given only when the clicked cell itself is inside the mask.
Impulse16CentreInside(m, gridX, gridY, x, y) ==
    LET dx == x - gridX
        dy == y - gridY
    IN  IF /\ Abs(dx) <= ExciteRadius /\ Abs(dy) <= ExciteRadius
           /\ InLattice(x, y) /\ m[y][x]
           /\ InLattice(gridX, gridY) /\ m[gridY][gridX]
           /\ dx * dx + dy * dy <= ExciteRadius * ExciteRadius
        THEN Energy16(dx, dy)
        ELSE 0

\* The impulse without the test dist <= radius.
Impulse16Square(m, gridX, gridY, x, y) ==
    LET dx == x - gridX
        dy == y - gridY
    IN  IF /\ Abs(dx) <= ExciteRadius /\ Abs(dy) <= ExciteRadius
           /\ InLattice(x, y) /\ m[y][x]
        THEN Energy16(dx, dy)
        ELSE 0

\* What the loop body of addWave adds to velocity[y][x] for the click (gridX, gridY):
\* the loops visit each (dx, dy) of the square once; the cell must be in the
\* lattice, inside the mask and at distance <= radius.
Impulse16(m, gridX, gridY, x, y) ==
    LET dx == x - gridX
        dy == y - gridY
    IN  IF /\ Abs(dx) <= ExciteRadius /\ Abs(dy) <= ExciteRadius
           /\ InLattice(x, y) /\ m[y][x]
           /\ dx * dx + dy * dy <= ExciteRadius * ExciteRadius
        THEN Energy16(dx, dy)
        ELSE 0

\* An addWave that assigns the energy ("=" for "+=").
addWave16Assign(m, v, mx, my) ==
    [y \in Rows |-> [x \in Cols |->
        IF Impulse16(m, mx, my, x, y) # 0 THEN Impulse16(m, mx, my, x, y) ELSE v[y][x]]]

\* An addWave that caps the velocity at the full strength of one impulse.
addWave16Clamped(m, v, mx, my) ==
    [y \in Rows |-> [x \in Cols |->
        LET w == v[y][x] + Impulse16(m, mx, my, x, y)
        IN  IF w > Energy16(0, 0) THEN Energy16(0, 0) ELSE w]]

\* addWave(mx, my): gridX := int(mx), gridY := int(my); the cursor position is
\* an integer pair, so the conversions keep it.  Returns the new velocity field.
addWave16(m, v, mx, my) ==
    [y \in Rows |-> [x \in Cols |-> v[y][x] + Impulse16(m, mx, my, x, y)]]

\* The four axis-aligned neighbours, in the order of the source.
deltas == << [dx |-> 0, dy |-> -1], [dx |-> 0, dy |-> 1],
             [dx |-> -1, dy |-> 0], [dx |-> 1, dy |-> 0] >>

\* One round of the neighbour loop of update (variant 16).
LaplacianTerm16(m, h, x, y, d) ==
    LET nx == x + d.dx
        ny == y + d.dy
    IN  IF InLattice(nx, ny)
        THEN IF m[ny][nx] THEN h[ny][nx] - h[y][x] ELSE -h[y][x]
        ELSE 0

\* neighbors++ runs on every round, in the lattice or not.
neighbors16 == Len(deltas)

\* A laplacian that reads the cells two steps away.
Laplacian16Wide(m, h, x, y) ==
    LET far(i) == [dx |-> 2 * deltas[i].dx, dy |-> 2 * deltas[i].dy]
    IN  ( LaplacianTerm16(m, h, x, y, far(1)) + LaplacianTerm16(m, h, x, y, far(2))
        + LaplacianTerm16(m, h, x, y, far(3)) + LaplacianTerm16(m, h, x, y, far(4)) )
            \div neighbors16

\* A laplacian divided by the number of neighbours inside the mask.
Laplacian16Mean(m, h, x, y) ==
    LET inside == Cardinality({i \in 1 .. Len(deltas) :
                                  /\ InLattice(x + deltas[i].dx, y + deltas[i].dy)
                                  /\ m[y + deltas[i].dy][x + deltas[i].dx]})
    IN  IF inside = 0
        THEN 0
        ELSE ( LaplacianTerm16(m, h, x, y, deltas[1]) + LaplacianTerm16(m, h, x, y, deltas[2])
             + LaplacianTerm16(m, h, x, y, deltas[3]) + LaplacianTerm16(m, h, x, y, deltas[4]) )
                 \div inside

\* laplacian after "laplacian /= float64(neighbors)"
Laplacian16(m, h, x, y) ==
    ( LaplacianTerm16(m, h, x, y, deltas[1]) + LaplacianTerm16(m, h, x, y, deltas[2])
    + LaplacianTerm16(m, h, x, y, deltas[3]) + LaplacianTerm16(m, h, x, y, deltas[4]) )
        \div neighbors16

\* A new velocity with a constant pull of one unit of height per update.
NewVelocity16Gravity(m, h, v, x, y) ==
    (v[y][x] + Laplacian16(m, h, x, y) * waveSpeed16 * waveSpeed16 - Unit16) * damping16

\* newVelocity[y][x] = (velocity[y][x] + laplacian*waveSpeed*waveSpeed) * damping
NewVelocity16(m, h, v, x, y) ==
    (v[y][x] + Laplacian16(m, h, x, y) * waveSpeed16 * waveSpeed16) * damping16

\* An integration that assigns the velocity ("=" for "+=").
Integrate16Assign(m, h, v) ==
    [y \in Rows |-> [x \in Cols |->
        IF m[y][x] THEN v[y][x] ELSE h[y][x]]]

\* First pass of update: height[y][x] += velocity[y][x] on every masked cell.
Integrate16(m, h, v) ==
    [y \in Rows |-> [x \in Cols |->
        IF m[y][x] THEN h[y][x] + v[y][x] ELSE h[y][x]]]

\* The interior cells in the order of the nested loops (y outer, x inner).
InteriorRowMajor ==
    [i \in 1 .. ((gridWidth - 2) * (gridHeight - 2)) |->
        [x |-> 1 + ((i - 1) % (gridWidth - 2)), y |-> 1 + ((i - 1) \div (gridWidth - 2))]]

Reverse(s) == [i \in 1 .. Len(s) |-> s[Len(s) + 1 - i]]

\* The interior cells column by column (x outer, y inner).
InteriorColMajor ==
    [i \in 1 .. ((gridWidth - 2) * (gridHeight - 2)) |->
        [x |-> 1 + ((i - 1) \div (gridHeight - 2)), y |-> 1 + ((i - 1) % (gridHeight - 2))]]

\* Orders in which a sweep could visit the interior cells.
SweepOrders ==
    {InteriorRowMajor, Reverse(InteriorRowMajor), InteriorColMajor, Reverse(InteriorColMajor)}

\* Second pass of update: the sweep over the interior cells, visited in
\* `order`, reading h and v and writing the separate buffer newVelocity.
\* The loop state st is the position i in `order` and the buffer.
RECURSIVE SweepVelocity16(_, _, _, _, _)
SweepVelocity16(m, h, v, order, st) ==
    IF st.i > Len(order)
    THEN st.newVelocity
    ELSE LET x == order[st.i].x
             y == order[st.i].y
         IN  SweepVelocity16(m, h, v, order,
                 [i |-> st.i + 1,
                  newVelocity |->
                      [st.newVelocity EXCEPT ![y][x] =
                          IF ~m[y][x] THEN 0 ELSE NewVelocity16(m, h, v, x, y)]])

KeepBorder16(h) == h

\* Last pass of update: the four outermost rows/columns are set to 0.
ZeroBorder16(h) ==
    [y \in Rows |-> [x \in Cols |-> IF IsBorder(x, y) THEN 0 ELSE h[y][x]]]

\* An update that integrates each cell's height when the sweep reaches it.
RECURSIVE SweepFused16(_, _, _, _)
SweepFused16(m, v, order, st) ==
    IF st.i > Len(order)
    THEN [height |-> st.height, velocity |-> st.newVelocity]
    ELSE LET x  == order[st.i].x
             y  == order[st.i].y
             h2 == [st.height EXCEPT ![y][x] = IF m[y][x] THEN @ + v[y][x] ELSE @]
         IN  SweepFused16(m, v, order,
                 [i |-> st.i + 1,
                  height |-> h2,
                  newVelocity |->
                      [st.newVelocity EXCEPT ![y][x] =
                          IF ~m[y][x] THEN 0 ELSE NewVelocity16(m, h2, v, x, y)]])

\* An update that sweeps into the old velocity array instead of a new buffer
\* of zeros.
update16ReuseBuffer(m, h, v, order) ==
    LET h1 == Integrate16(m, h, v)
    IN  [height   |-> ZeroBorder16(h1),
         velocity |-> SweepVelocity16(m, h1, v, order, [i |-> 1, newVelocity |-> v])]

\* An update whose new velocity buffer holds the interior cells only.
update16InteriorBuffer(m, h, v, order) ==
    LET h1 == Integrate16(m, h, v)
        nv == SweepVelocity16(m, h1, v, order, [i |-> 1, newVelocity |-> ZeroField])
    IN  [height   |-> ZeroBorder16(h1),
         velocity |-> [y \in 1 .. (gridHeight - 2) |->
                          [x \in 1 .. (gridWidth - 2) |-> nv[y][x]]]]

update16Fused(m, h, v, order) ==
    LET r == SweepFused16(m, v, order, [i |-> 1, height |-> h, newVelocity |-> ZeroField])
    IN  [height |-> ZeroBorder16(r.height), velocity |-> r.velocity]

\* update, with the sweep visiting the interior cells in `order`.
update16(m, h, v, order) ==
    LET h1 == Integrate16(m, h, v)
    IN  [height   |-> ZeroBorder16(h1),
         velocity |-> SweepVelocity16(m, h1, v, order,
                                      [i |-> 1, newVelocity |-> ZeroField])]

(* --------------------- variant 15: src/_mainv15.go -------------------- *)
\* waveSpeed = 0.25 and damping = 0.995, as exact fractions
waveSpeedNum15 == 1
waveSpeedDen15 == 4
dampingNum15 == 199
dampingDen15 == 200
ImpulseStrength15 == 20

\* One cell update divides by waveSpeedDen15^2 * dampingDen15.  The sweep is
\* in place, so within one update a value can pass through the cell updates of
\* a whole monotone lattice path: gridWidth + gridHeight - 5 of them.
Depth15 == MaxUpdates * (gridWidth + gridHeight - 5)

\* Variant 15: a field value v stands for the real v / Unit15.
Unit15 == BigPow(waveSpeedDen15 * waveSpeedDen15, dampingDen15, Depth15)

ZeroField15 == [y \in Rows |-> [x \in Cols |-> BigZero]]

\* An addWave of variant 15 that clamps the click into the lattice.
addWave15Clamp(m, cur, mx, my) ==
    LET gridX == IF mx < 0 THEN 0 ELSE IF mx >= gridWidth THEN gridWidth - 1 ELSE mx
        gridY == IF my < 0 THEN 0 ELSE IF my >= gridHeight THEN gridHeight - 1 ELSE my
    IN  IF m[gridY][gridX]
        THEN [cur EXCEPT ![gridY][gridX] = BigAdd(@, BigMulInt(Unit15, ImpulseStrength15))]
        ELSE cur

\* An addWave of variant 15 without the test of the mask.
addWave15NoMask(m, cur, mx, my) ==
    IF InLattice(mx, my)
    THEN [cur EXCEPT ![my][mx] = BigAdd(@, BigMulInt(Unit15, ImpulseStrength15))]
    ELSE cur

\* addWave(mx, my): gridX := int(mx / gridSize), gridSize = 1; the clicked
\* cell alone gets += 20.0, when it is in the lattice and inside the mask.
\* Returns the new current field.
addWave15(m, cur, mx, my) ==
    IF InLattice(mx, my) /\ m[my][mx]
    THEN [cur EXCEPT ![my][mx] = BigAdd(@, BigMulInt(Unit15, ImpulseStrength15))]
    ELSE cur

\* One round of the neighbour loop of update (variant 15): what is added to
\* laplacian and to numNeighbors.
LaplacianTerm15(m, cur, x, y, d) ==
    LET nx == x + d.dx
        ny == y + d.dy
    IN  IF InLattice(nx, ny)
        THEN [add |-> IF m[ny][nx] THEN cur[ny][nx] ELSE BigNeg(cur[y][x]), n |-> 1]
        ELSE [add |-> BigZero, n |-> 0]

\* laplacian after "laplacian -= float64(numNeighbors) * wg.current[y][x]"
Laplacian15(m, cur, x, y) ==
    LET t1 == LaplacianTerm15(m, cur, x, y, deltas[1])
        t2 == LaplacianTerm15(m, cur, x, y, deltas[2])
        t3 == LaplacianTerm15(m, cur, x, y, deltas[3])
        t4 == LaplacianTerm15(m, cur, x, y, deltas[4])
        numNeighbors == t1.n + t2.n + t3.n + t4.n
    IN  BigSub(BigAdd(BigAdd(t1.add, t2.add), BigAdd(t3.add, t4.add)),
               BigMulInt(cur[y][x], numNeighbors))

\* c2 * laplacian, c2 := waveSpeed * waveSpeed
C2Laplacian15(lap) ==
    BigDivInt(BigMulInt(lap, waveSpeedNum15 * waveSpeedNum15),
              waveSpeedDen15 * waveSpeedDen15)

\* the value before "newHeight *= damping"
Undamped15(m, cur, prev, x, y) ==
    BigAdd(BigSub(BigMulInt(cur[y][x], 2), prev[y][x]),
           C2Laplacian15(Laplacian15(m, cur, x, y)))

\* newHeight := 2*current - previous + c2*laplacian; newHeight *= damping
NewHeight15(m, cur, prev, x, y) ==
    BigDivInt(BigMulInt(Undamped15(m, cur, prev, x, y), dampingNum15), dampingDen15)

\* A visit that shifts the snapshot after writing the new height.
Visit15ShiftLate(m, order, st) ==
    LET x == order[st.i].x
        y == order[st.i].y
        n == NewHeight15(m, st.current, st.previous, x, y)
    IN  IF ~m[y][x]
        THEN [st EXCEPT !.i = @ + 1]
        ELSE [i        |-> st.i + 1,
              current  |-> [st.current EXCEPT ![y][x] = n],
              previous |-> [st.previous EXCEPT ![y][x] = n]]

\* The sweep of update: the interior cells in `order`; each masked cell reads
\* wg.current and wg.previous as they stand when it is visited and writes both
\* in place.  The loop state st is the position i in `order` and the two
\* arrays.
Visit15(m, order, st) ==
    LET x == order[st.i].x
        y == order[st.i].y
    IN  IF ~m[y][x]
        THEN [st EXCEPT !.i = @ + 1]
        ELSE [i        |-> st.i + 1,
              current  |-> [st.current EXCEPT ![y][x] =
                               NewHeight15(m, st.current, st.previous, x, y)],
              previous |-> [st.previous EXCEPT ![y][x] = st.current[y][x]]]

RECURSIVE Sweep15(_, _, _)
Sweep15(m, order, st) ==
    IF st.i > Len(order)
    THEN [current |-> st.current, previous |-> st.previous]
    ELSE Sweep15(m, order, Visit15(m, order, st))

\* "Boundary conditions: waves can't escape": current is set to 0 on the four
\* outermost rows/columns.
ZeroBorder15(cur) ==
    [y \in Rows |-> [x \in Cols |-> IF IsBorder(x, y) THEN BigZero ELSE cur[y][x]]]

update15(m, cur, prev, order) ==
    LET r == Sweep15(m, order, [i |-> 1, current |-> cur, previous |-> prev])
    IN  [current |-> ZeroBorder15(r.current), previous |-> r.previous]

\* Every division of the sweep is exact.
RECURSIVE SweepExact15(_, _, _)
SweepExact15(m, order, st) ==
    IF st.i > Len(order)
    THEN TRUE
    ELSE LET x == order[st.i].x
             y == order[st.i].y
         IN  /\ m[y][x] =>
                  /\ BigDivides(waveSpeedDen15 * waveSpeedDen15,
                                BigMulInt(Laplacian15(m, st.current, x, y),
                                          waveSpeedNum15 * waveSpeedNum15))
                  /\ BigDivides(dampingDen15,
                                BigMulInt(Undamped15(m, st.current, st.previous, x, y),
                                          dampingNum15))
             /\ SweepExact15(m, order, Visit15(m, order, st))

(* ------------------------------ driver -------------------------------- *)
\* Cursor positions (x, y) tried: the centre of the shape, its diagonal
\* neighbour, a cell of the lattice border, and a position left of the lattice.
ClickPoints ==
    { <<gridWidth \div 2, gridHeight \div 2>>,
      <<(gridWidth \div 2) - 1, (gridHeight \div 2) - 1>>,
      <<0, gridHeight \div 2>>,
      <<-1, gridHeight \div 2>> }

\* the image before the first draw
BlankScreen == [y \in Rows |-> [x \in Cols |-> <<0, 0, 0>>]]

ZeroState ==
    [height |-> ZeroField, velocity |-> ZeroField,
     current |-> ZeroField15, previous |-> ZeroField15]

\* calls records the calls made on the WaveGrid so far; settled holds the
\* fields as the constructor or the last update left them; probe records the
\* height read at one cell after each update of a scenario run; frame counts
\* the Game.Update calls that have returned; screen holds the colour last
\* drawn for each cell.  pressed and waveSources are the fields of the Game of
\* the analytical variants, inputs the button and cursor read in each frame.
AddWaveCall(p) == [op |-> "addWave", mx |-> p[1], my |-> p[2]]
UpdateCall == [op |-> "update", mx |-> 0, my |-> 0]

LastOp == IF calls = << >> THEN "none" ELSE calls[Len(calls)].op

NumCalls(op) == Cardinality({i \in 1 .. Len(calls) : calls[i].op = op})

Init ==
    /\ variant \in {15, 16}
    /\ mask \in {initializeMask(r2) : r2 \in MaskRadii2}
    /\ height = ZeroField
    /\ velocity = ZeroField
    /\ current = ZeroField15
    /\ previous = ZeroField15
    /\ calls = << >>
    /\ settled = ZeroState
    /\ probe = << >>
    /\ frame = 0
    /\ screen = BlankScreen
    /\ pressed = FALSE
    /\ waveSources = << >>
    /\ inputs = << >>

CallAddWave16 ==
    /\ variant = 16
    /\ NumCalls("addWave") < MaxWaves
    /\ \E p \in ClickPoints :
        /\ velocity' = addWave16(mask, velocity, p[1], p[2])
        /\ calls' = Append(calls, AddWaveCall(p))
    /\ UNCHANGED <<variant, mask, height, current, previous, settled, probe, frame, screen,
                 pressed, waveSources, inputs>>

CallUpdate16 ==
    /\ variant = 16
    /\ NumCalls("update") < MaxUpdates
    /\ LET r == update16(mask, height, velocity, InteriorRowMajor)
       IN  /\ height' = r.height
           /\ velocity' = r.velocity
           /\ settled' = [settled EXCEPT !.height = r.height, !.velocity = r.velocity]
    /\ calls' = Append(calls, UpdateCall)
    /\ UNCHANGED <<variant, mask, current, previous, probe, frame, screen,
                 pressed, waveSources, inputs>>

CallAddWave15 ==
    /\ variant = 15
    /\ NumCalls("addWave") < MaxWaves
    /\ \E p \in ClickPoints :
        /\ current' = addWave15(mask, current, p[1], p[2])
        /\ calls' = Append(calls, AddWaveCall(p))
    /\ UNCHANGED <<variant, mask, height, velocity, previous, settled, probe, frame, screen,
                 pressed, waveSources, inputs>>

CallUpdate15 ==
    /\ variant = 15
    /\ NumCalls("update") < MaxUpdates
    /\ LET r == update15(mask, current, previous, InteriorRowMajor)
       IN  /\ current' = r.current
           /\ previous' = r.previous
           /\ settled' = [settled EXCEPT !.current = r.current, !.previous = r.previous]
    /\ calls' = Append(calls, UpdateCall)
    /\ UNCHANGED <<variant, mask, height, velocity, probe, frame, screen,
                 pressed, waveSources, inputs>>

Next ==
    \/ CallAddWave16
    \/ CallUpdate16
    \/ CallAddWave15
    \/ CallUpdate15

Spec == Init /\ [][Next]_vars

\* The model's arithmetic is exact: no division of update leaves a remainder.
Exact15 ==
    (variant = 15 /\ NumCalls("update") < MaxUpdates)
        => SweepExact15(mask, InteriorRowMajor,
                        [i |-> 1, current |-> current, previous |-> previous])

Exact16 ==
    \A y \in Rows, x \in Cols :
        /\ height[y][x] % Pow(4, MaxUpdates - NumCalls("update")) = 0
        /\ velocity[y][x] % Pow(4, MaxUpdates - NumCalls("update")) = 0

(* ------------------- replaying a sequence of calls -------------------- *)
\* The fields of variant v after one call c on the fields st.
ApplyCall(v, m, st, c) ==
    IF c.op = "addWave"
    THEN IF v = 16
         THEN [st EXCEPT !.velocity = addWave16(m, @, c.mx, c.my)]
         ELSE [st EXCEPT !.current = addWave15(m, @, c.mx, c.my)]
    ELSE IF v = 16
         THEN LET r == update16(m, st.height, st.velocity, InteriorRowMajor)
              IN  [st EXCEPT !.height = r.height, !.velocity = r.velocity]
         ELSE LET r == update15(m, st.current, st.previous, InteriorRowMajor)
              IN  [st EXCEPT !.current = r.current, !.previous = r.previous]

RECURSIVE Replay(_, _, _, _, _)
Replay(v, m, cs, i, st) ==
    IF i > Len(cs) THEN st ELSE Replay(v, m, cs, i + 1, ApplyCall(v, m, st, cs[i]))

\* The fields of a freshly constructed grid of variant v after the calls cs.
Run(v, m, cs) == Replay(v, m, cs, 1, ZeroState)

Here == [height |-> height, velocity |-> velocity,
         current |-> current, previous |-> previous]

FieldAdd16(a, b) == [y \in Rows |-> [x \in Cols |-> a[y][x] + b[y][x]]]

FieldAdd15(a, b) == [y \in Rows |-> [x \in Cols |-> BigAdd(a[y][x], b[y][x])]]

\* the cell-by-cell sum of two grids
StateSum(a, b) ==
    [height   |-> FieldAdd16(a.height, b.height),
     velocity |-> FieldAdd16(a.velocity, b.velocity),
     current  |-> FieldAdd15(a.current, b.current),
     previous |-> FieldAdd15(a.previous, b.previous)]

\* the index of the last update call, 0 when there is none
LastUpdate ==
    IF NumCalls("update") = 0 THEN 0
    ELSE CHOOSE i \in 1 .. Len(calls) :
            calls[i].op = "update" /\ \A j \in (i + 1) .. Len(calls) : calls[j].op # "update"

\* the addWave calls made since the last update
Pending == SubSeq(calls, LastUpdate + 1, Len(calls))

Reorderings(s) ==
    { [i \in 1 .. Len(s) |-> s[f[i]]] :
        f \in {g \in [1 .. Len(s) -> 1 .. Len(s)] :
                  \A i, j \in 1 .. Len(s) : i # j => g[i] # g[j]} }

\* the sum of what each call of cs adds to a zero field
RECURSIVE Contributions(_, _, _, _)
Contributions(v, m, cs, i) ==
    IF i > Len(cs)
    THEN ZeroState
    ELSE StateSum(ApplyCall(v, m, ZeroState, cs[i]), Contributions(v, m, cs, i + 1))

\* the cells of the lattice, row by row
AllCells ==
    [i \in 1 .. (gridWidth * gridHeight) |->
        [x |-> (i - 1) % gridWidth, y |-> (i - 1) \div gridWidth]]

\* the sum of the squared heights over the masked cells
RECURSIVE SumSq15(_, _, _)
SumSq15(m, cur, i) ==
    IF i > Len(AllCells)
    THEN BigZero
    ELSE LET x == AllCells[i].x
             y == AllCells[i].y
         IN  BigAdd(IF m[y][x] THEN BigMul(cur[y][x], cur[y][x]) ELSE BigZero,
                    SumSq15(m, cur, i + 1))

RECURSIVE SumSq16(_, _, _)
SumSq16(m, h, i) ==
    IF i > Len(AllCells)
    THEN 0
    ELSE LET x == AllCells[i].x
             y == AllCells[i].y
         IN  (IF m[y][x] THEN h[y][x] * h[y][x] ELSE 0) + SumSq16(m, h, i + 1)

(* ============================== claims ================================ *)
Inside(x, y) == mask[y][x]

Interior(x, y) == InLattice(x, y) /\ ~IsBorder(x, y)

\* C1. Energy containment: in every reachable state of either variant each
\* cell outside the mask holds height 0 (height in variant 16, current and
\* previous in variant 15).
C1_EnergyContainment ==
    \A y \in Rows, x \in Cols :
        ~Inside(x, y) =>
            /\ height[y][x] = 0
            /\ current[y][x] = BigZero
            /\ previous[y][x] = BigZero

\* A click on a cell outside the mask was made, updates followed, and an inside
\* cell next to a wall cell carries a non-zero height.
C1_Witness ==
    /\ NumCalls("update") = MaxUpdates
    /\ \E i \in 1 .. Len(calls) :
        /\ calls[i].op = "addWave"
        /\ InLattice(calls[i].mx, calls[i].my)
        /\ ~Inside(calls[i].mx, calls[i].my)
    /\ \E y \in Rows, x \in Cols :
        /\ Interior(x, y) /\ Inside(x, y) /\ ~Inside(x - 1, y)
        /\ (height[y][x] # 0 \/ current[y][x] # BigZero)

\* C2. Border absorption: right after every update each cell of the lattice
\* border holds height 0, whatever its mask value and its value before.
C2_BorderAbsorption ==
    LastOp = "update" =>
        \A y \in Rows, x \in Cols :
            IsBorder(x, y) => (height[y][x] = 0 /\ current[y][x] = BigZero)

\* An update has just run on a field whose previous call excited a border cell
\* that is inside the mask.
C2_Witness ==
    /\ Len(calls) >= 2
    /\ LastOp = "update"
    /\ LET c == calls[Len(calls) - 1]
       IN  /\ c.op = "addWave"
           /\ InLattice(c.mx, c.my) /\ IsBorder(c.mx, c.my) /\ Inside(c.mx, c.my)

IsUpdateStep(v) == variant = v /\ calls' = Append(calls, UpdateCall)

IsAddWaveStep(v) ==
    variant = v /\ Len(calls') = Len(calls) + 1 /\ calls'[Len(calls')].op = "addWave"

\* C3. Read-old/write-new in variant 16: update computes each interior
\* masked cell's new velocity from the heights as they stand after the whole
\* position-integration pass and from the velocities held at the start of the
\* call, and the state after update is the same for every order in which the
\* sweep visits the cells.
C3_ReadOldWriteNew ==
    [][IsUpdateStep(16) =>
          LET h1 == Integrate16(mask, height, velocity)
          IN  /\ \A y \in Rows, x \in Cols :
                    (Interior(x, y) /\ Inside(x, y)) =>
                        velocity'[y][x] =
                            (velocity[y][x]
                               + Laplacian16(mask, h1, x, y) * waveSpeed16 * waveSpeed16)
                            * damping16
              /\ \A o \in SweepOrders :
                    update16(mask, height, velocity, o)
                        = [height |-> height', velocity |-> velocity']
      ]_vars

\* A second update has run in variant 16 (so the sweep read non-zero heights)
\* and two adjacent interior masked cells hold different non-zero velocities.
C3_Witness ==
    /\ variant = 16
    /\ LastOp = "update"
    /\ NumCalls("update") >= 2
    /\ \E y \in Rows, x \in Cols :
        /\ Interior(x, y) /\ Interior(x + 1, y) /\ Inside(x, y) /\ Inside(x + 1, y)
        /\ velocity[y][x] # 0 /\ velocity[y][x + 1] # 0
        /\ velocity[y][x] # velocity[y][x + 1]

\* C4. No read-after-write in variant 15: in one update the new height of
\* every interior masked cell is damping * (2*current - previous + c^2 *
\* Laplacian(current)) with every current value taken at the start of the call.
C4_NoReadAfterWrite ==
    [][IsUpdateStep(15) =>
          \A y \in Rows, x \in Cols :
              (Interior(x, y) /\ Inside(x, y)) =>
                  current'[y][x] = NewHeight15(mask, current, previous, x, y)
      ]_vars

\* C5. Superposition: two addWave calls at A and B on the zero field followed
\* by n >= 1 updates leave, cell by cell, the sum of the fields of two fresh
\* grids with the same mask, one excited only at A and one only at B, each
\* updated n times.
C5_Superposition ==
    ( /\ Len(calls) >= 3
      /\ calls[1].op = "addWave" /\ calls[2].op = "addWave"
      /\ \A i \in 3 .. Len(calls) : calls[i].op = "update" )
    => Here = StateSum(Run(variant, mask, << calls[1] >> \o SubSeq(calls, 3, Len(calls))),
                       Run(variant, mask, << calls[2] >> \o SubSeq(calls, 3, Len(calls))))

\* Two different masked cells were excited in the same frame, MaxUpdates
\* updates followed, and the field is not at rest.
C5_Witness ==
    /\ Len(calls) = 2 + MaxUpdates
    /\ calls[1].op = "addWave" /\ calls[2].op = "addWave"
    /\ <<calls[1].mx, calls[1].my>> # <<calls[2].mx, calls[2].my>>
    /\ InLattice(calls[1].mx, calls[1].my) /\ Inside(calls[1].mx, calls[1].my)
    /\ InLattice(calls[2].mx, calls[2].my) /\ Inside(calls[2].mx, calls[2].my)
    /\ \A i \in 3 .. Len(calls) : calls[i].op = "update"
    /\ \E y \in Rows, x \in Cols :
        /\ Interior(x, y)
        /\ (height[y][x] # 0 \/ current[y][x] # BigZero)

\* C6. Reflective wall is zero-flux: in update a 4-neighbour outside the mask
\* contributes to the Laplacian of an interior masked cell what a masked
\* neighbour holding the cell's own height would contribute; and a field whose
\* masked cells all hold one non-zero height with zero velocity has zero
\* Laplacian at every interior masked cell.
C6_ZeroFluxWall ==
    LET h1 == Integrate16(mask, height, velocity)
    IN  /\ \A y \in Rows, x \in Cols, k \in 1 .. Len(deltas) :
            LET nx == x + deltas[k].dx
                ny == y + deltas[k].dy
            IN  (Interior(x, y) /\ Inside(x, y) /\ ~Inside(nx, ny)) =>
                    LET m2 == [mask EXCEPT ![ny][nx] = TRUE]
                    IN  /\ LaplacianTerm16(mask, h1, x, y, deltas[k])
                             = LaplacianTerm16(m2, [h1 EXCEPT ![ny][nx] = h1[y][x]],
                                               x, y, deltas[k])
                        /\ LaplacianTerm15(mask, current, x, y, deltas[k])
                             = LaplacianTerm15(m2, [current EXCEPT ![ny][nx] = current[y][x]],
                                               x, y, deltas[k])
        /\ ( /\ variant = 16
             /\ \E cy \in Rows, cx \in Cols :
                    /\ Inside(cx, cy) /\ height[cy][cx] # 0
                    /\ \A y \in Rows, x \in Cols :
                          Inside(x, y) =>
                              (height[y][x] = height[cy][cx] /\ velocity[y][x] = 0) )
           => \A y \in Rows, x \in Cols :
                 (Interior(x, y) /\ Inside(x, y)) => Laplacian16(mask, h1, x, y) = 0

\* C7. Decay under zero driving: with damping < 1 and a single excitation
\* followed by updates only, no update raises the sum of the squared heights
\* over the masked cells.
C7_Decay ==
    [][( /\ NumCalls("addWave") = 1
         /\ calls[1].op = "addWave" )
       => /\ (IsUpdateStep(15) /\ dampingNum15 < dampingDen15)
              => BigLeq(SumSq15(mask, current', 1), SumSq15(mask, current, 1))
          /\ (IsUpdateStep(16) /\ damping16 < 1)
              => SumSq16(mask, height', 1) <= SumSq16(mask, height, 1)
      ]_vars

\* C8. Excitation frame: addWave leaves the height and velocity (current and
\* previous) of every cell outside the mask, and of every cell farther from
\* the clicked cell than the excitation radius, unchanged.
C8_ExcitationFrame ==
    [][(IsAddWaveStep(16) \/ IsAddWaveStep(15)) =>
          LET c == calls'[Len(calls')]
          IN  \A y \in Rows, x \in Cols :
                  ( \/ ~Inside(x, y)
                    \/ (x - c.mx) * (x - c.mx) + (y - c.my) * (y - c.my)
                           > ExciteRadius * ExciteRadius )
                  => /\ height'[y][x] = height[y][x]
                     /\ velocity'[y][x] = velocity[y][x]
                     /\ current'[y][x] = current[y][x]
                     /\ previous'[y][x] = previous[y][x]
      ]_vars

\* addWave of variant 16 has just excited some cell, and a masked cell lies in
\* the square the loops visit but farther than the radius from the click.
C8_Witness ==
    /\ variant = 16
    /\ LastOp = "addWave"
    /\ LET c == calls[Len(calls)]
       IN  /\ \E y \in Rows, x \in Cols :
                /\ Inside(x, y)
                /\ Abs(x - c.mx) <= ExciteRadius /\ Abs(y - c.my) <= ExciteRadius
                /\ (x - c.mx) * (x - c.mx) + (y - c.my) * (y - c.my)
                       > ExciteRadius * ExciteRadius
           /\ \E y \in Rows, x \in Cols : Impulse16(mask, c.mx, c.my, x, y) # 0

\* C9. Additive accumulation without clamping: the addWave calls made since
\* the last update leave each cell's excited quantity (velocity in variant 16,
\* current in variant 15) at its value before them plus the sum of what each
\* call contributes alone, whatever the order of the calls; so n calls at one
\* position add n times one call's contribution.
C9_AdditiveAccumulation ==
    /\ Here = StateSum(settled, Contributions(variant, mask, Pending, 1))
    /\ \A t \in Reorderings(Pending) :
          Replay(variant, mask, t, 1, settled) = Here

\* Two addWave calls at the same masked cell were made in a row: the cell
\* holds twice the full strength of one impulse, above what one call gives.
C9_Witness ==
    /\ Len(Pending) = 2
    /\ Pending[1] = Pending[2]
    /\ InLattice(Pending[1].mx, Pending[1].my) /\ Inside(Pending[1].mx, Pending[1].my)
    /\ \/ variant = 16 /\ velocity[Pending[1].my][Pending[1].mx] = 2 * Energy16(0, 0)
       \/ variant = 15 /\ current[Pending[1].my][Pending[1].mx]
                              = BigMulInt(Unit15, 2 * ImpulseStrength15)

LaplacianTerm16On15(m, cur, x, y, d) ==
    LET nx == x + d.dx
        ny == y + d.dy
    IN  IF InLattice(nx, ny)
        THEN IF m[ny][nx] THEN BigSub(cur[ny][nx], cur[y][x]) ELSE BigNeg(cur[y][x])
        ELSE BigZero

\* The accumulator of variant 16 before "laplacian /= float64(neighbors)".
LaplacianSum16On15(m, cur, x, y) ==
    BigAdd(BigAdd(LaplacianTerm16On15(m, cur, x, y, deltas[1]),
                  LaplacianTerm16On15(m, cur, x, y, deltas[2])),
           BigAdd(LaplacianTerm16On15(m, cur, x, y, deltas[3]),
                  LaplacianTerm16On15(m, cur, x, y, deltas[4])))

\* C11. The leapfrog variant uses the Laplacian of the velocity variant: at
\* every interior masked cell the value variant 15 multiplies by c^2 equals
\* the accumulator of variant 16 on the same heights divided by the neighbour
\* count 4 (stated without the division: 4 times the former is the latter).
C11_SameLaplacian ==
    variant = 15 =>
        \A y \in Rows, x \in Cols :
            (Interior(x, y) /\ Inside(x, y)) =>
                BigMulInt(Laplacian15(mask, current, x, y), neighbors16)
                    = LaplacianSum16On15(mask, current, x, y)

\* A field seen through the left-right reflection x -> W-1-x, and through the
\* top-bottom reflection y -> H-1-y.
MirrorX(f) == [y \in Rows |-> [x \in Cols |-> f[y][gridWidth - 1 - x]]]

MirrorY(f) == [y \in Rows |-> [x \in Cols |-> f[gridHeight - 1 - y][x]]]

\* C12. Isotropy of the leapfrog step: an update of variant 15 that starts
\* from a mask and from current/previous fields symmetric under a lattice
\* reflection leaves current and previous symmetric under that reflection.
C12_Isotropy ==
    [][IsUpdateStep(15) =>
          /\ (mask = MirrorX(mask) /\ current = MirrorX(current)
                                   /\ previous = MirrorX(previous))
                => (current' = MirrorX(current') /\ previous' = MirrorX(previous'))
          /\ (mask = MirrorY(mask) /\ current = MirrorY(current)
                                   /\ previous = MirrorY(previous))
                => (current' = MirrorY(current') /\ previous' = MirrorY(previous'))
      ]_vars

\* The cells whose mask addWave reads for the click (gridX, gridY): in variant
\* 16 every cell of the square of the two loops that passes the four index
\* comparisons, in variant 15 the clicked cell when it passes them.  The cells
\* addWave writes are among them.
MaskReads16(gridX, gridY) ==
    { c \in { <<gridX + dx, gridY + dy>> :
                  dx \in (-ExciteRadius) .. ExciteRadius,
                  dy \in (-ExciteRadius) .. ExciteRadius } :
        c[1] >= 0 /\ c[1] < gridWidth /\ c[2] >= 0 /\ c[2] < gridHeight }

MaskReads15(gridX, gridY) ==
    IF gridX >= 0 /\ gridX < gridWidth /\ gridY >= 0 /\ gridY < gridHeight
    THEN { <<gridX, gridY>> }
    ELSE { }

\* Cursor positions off the lattice: left, right, above, below, diagonal, and
\* farther away than the excitation radius.
OffLatticeClicks ==
    { <<-1, gridHeight \div 2>>, <<gridWidth, gridHeight \div 2>>,
      <<gridWidth \div 2, -1>>, <<gridWidth \div 2, gridHeight>>,
      <<-1, -1>>, <<gridWidth + ExciteRadius, gridHeight + ExciteRadius>> }

\* (x, y) is a cell the click (gridX, gridY) reaches: within the radius in
\* variant 16, the clicked cell itself in variant 15.
Reached(v, gridX, gridY, x, y) ==
    IF v = 16
    THEN (x - gridX) * (x - gridX) + (y - gridY) * (y - gridY)
             <= ExciteRadius * ExciteRadius
    ELSE x = gridX /\ y = gridY

\* What addWave of variant v makes of the fields st for the click p.
AfterAddWave(v, m, st, p) == ApplyCall(v, m, st, AddWaveCall(p))

\* The click p leaves the fields `after`, which differ from `before` only on
\* masked cells of the lattice that p reaches, and keep the lattice's shape.
IgnoresOutOfRange(v, m, before, after, p) ==
    /\ \A c \in MaskReads16(p[1], p[2]) \cup MaskReads15(p[1], p[2]) :
          c[1] \in Cols /\ c[2] \in Rows
    /\ \A f \in {"height", "velocity", "current", "previous"} :
          /\ DOMAIN after[f] = Rows
          /\ \A y \in Rows :
                /\ DOMAIN after[f][y] = Cols
                /\ \A x \in Cols :
                      after[f][y][x] # before[f][y][x]
                          => (m[y][x] /\ Reached(v, p[1], p[2], x, y))
    /\ (~ \E y \in Rows, x \in Cols : m[y][x] /\ Reached(v, p[1], p[2], x, y))
          => after = before

\* C13. Out-of-range excitation is silently ignored: addWave, for a click on
\* or off the lattice, touches no cell outside the lattice, changes only
\* masked cells of the lattice within its reach, and changes nothing when no
\* such cell exists.
C13_OutOfRangeIgnored ==
    [][(IsAddWaveStep(16) \/ IsAddWaveStep(15)) =>
          LET c == calls'[Len(calls')]
              after == [height |-> height', velocity |-> velocity',
                        current |-> current', previous |-> previous']
          IN  /\ IgnoresOutOfRange(variant, mask, Here, after, <<c.mx, c.my>>)
              /\ \A p \in OffLatticeClicks :
                    IgnoresOutOfRange(variant, mask, Here,
                                      AfterAddWave(variant, mask, Here, p), p)
      ]_vars

\* addWave has just run for a click left of the lattice: in variant 16 it
\* excited a cell of the lattice, in variant 15 it left the excited field as
\* it was.
C13_Witness ==
    /\ LastOp = "addWave"
    /\ ~InLattice(calls[Len(calls)].mx, calls[Len(calls)].my)
    /\ \/ /\ variant = 16
          /\ Len(calls) = 1
          /\ \E y \in Rows, x \in Cols : velocity[y][x] # 0
       \/ /\ variant = 15
          /\ Len(calls) = 2
          /\ calls[1].op = "addWave"
          /\ \E y \in Rows, x \in Cols : current[y][x] # BigZero

(* ------------------------ the 50 x 50 scenario ------------------------ *)
\* A lattice of 50 x 50 cells with a circular mask of radius 20 about
\* (25, 25), wave speed 1/2, damping 199/200; one excitation of strength 20
\* and radius 8, then 40 updates; heights must stay below 100.
Scenario ==
    [width |-> 50, height |-> 50, maskRadius |-> 20, cx |-> 25, cy |-> 25,
     speedNum |-> 1, speedDen |-> 2, dampingNum |-> 199, dampingDen |-> 200,
     strength |-> 20, radius |-> 8, updates |-> 40, limit |-> 100]

\* Scenario runs keep heights and velocities in fixed point: a value v stands
\* for v / ScenarioUnit; distances are taken to 1 / ScenarioDistPrec.
ScenarioUnit == 100 * 1000
ScenarioDistPrec == 1000

ScenarioRows == 0 .. (Scenario.height - 1)
ScenarioCols == 0 .. (Scenario.width - 1)

ScenarioInLattice(x, y) ==
    x >= 0 /\ x < Scenario.width /\ y >= 0 /\ y < Scenario.height

ScenarioIsBorder(x, y) ==
    x = 0 \/ y = 0 \/ x = Scenario.width - 1 \/ y = Scenario.height - 1

\* initializeMask with the scenario's centre and radius
ScenarioMask ==
    [y \in ScenarioRows |-> [x \in ScenarioCols |->
        (x - Scenario.cx) * (x - Scenario.cx) + (y - Scenario.cy) * (y - Scenario.cy)
            < Scenario.maskRadius * Scenario.maskRadius]]

ScenarioZeroField == [y \in ScenarioRows |-> [x \in ScenarioCols |-> 0]]

\* math.Sqrt(float64(dx*dx + dy*dy)) for a distance within the radius
ScenarioDist(dx, dy) ==
    LET n == (dx * dx + dy * dy) * ScenarioDistPrec * ScenarioDistPrec
    IN  CHOOSE k \in 0 .. (Scenario.radius * ScenarioDistPrec) :
            k * k <= n /\ (k + 1) * (k + 1) > n

\* energy := strength * (1 - dist/radius) * (1 - dist/radius)
ScenarioEnergy(dx, dy) ==
    LET rad  == Scenario.radius * ScenarioDistPrec
        left == rad - ScenarioDist(dx, dy)
    IN  (((left * left) \div (Scenario.radius * Scenario.radius)) * Scenario.strength)
            \div ((ScenarioDistPrec * ScenarioDistPrec) \div ScenarioUnit)

\* addWave of variant 16 on the scenario's lattice
ScenarioAddWave(m, v, gridX, gridY) ==
    [y \in ScenarioRows |-> [x \in ScenarioCols |->
        LET dx == x - gridX
            dy == y - gridY
        IN  IF /\ Abs(dx) <= Scenario.radius /\ Abs(dy) <= Scenario.radius
               /\ m[y][x]
               /\ dx * dx + dy * dy <= Scenario.radius * Scenario.radius
            THEN v[y][x] + ScenarioEnergy(dx, dy)
            ELSE v[y][x]]]

ScenarioLaplacianTerm(m, h, x, y, d) ==
    LET nx == x + d.dx
        ny == y + d.dy
    IN  IF ScenarioInLattice(nx, ny)
        THEN IF m[ny][nx] THEN h[ny][nx] - h[y][x] ELSE -h[y][x]
        ELSE 0

\* acceleration := (laplacian / neighbors) * waveSpeed * waveSpeed, rounded once
ScenarioAcceleration(m, h, x, y) ==
    ( ( ScenarioLaplacianTerm(m, h, x, y, deltas[1])
      + ScenarioLaplacianTerm(m, h, x, y, deltas[2])
      + ScenarioLaplacianTerm(m, h, x, y, deltas[3])
      + ScenarioLaplacianTerm(m, h, x, y, deltas[4]) )
        * Scenario.speedNum * Scenario.speedNum )
    \div (neighbors16 * Scenario.speedDen * Scenario.speedDen)

\* update of variant 16 on the scenario's lattice: integrate the heights,
\* compute the new velocities of the interior masked cells into a buffer of
\* zeros, zero the border heights.
ScenarioUpdate(m, h, v) ==
    LET h1 == [y \in ScenarioRows |-> [x \in ScenarioCols |->
                  IF m[y][x] THEN h[y][x] + v[y][x] ELSE h[y][x]]]
    IN  [height   |-> [y \in ScenarioRows |-> [x \in ScenarioCols |->
                          IF ScenarioIsBorder(x, y) THEN 0 ELSE h1[y][x]]],
         velocity |-> [y \in ScenarioRows |-> [x \in ScenarioCols |->
                          IF ScenarioIsBorder(x, y) \/ ~m[y][x]
                          THEN 0
                          ELSE ((v[y][x] + ScenarioAcceleration(m, h1, x, y))
                                    * Scenario.dampingNum) \div Scenario.dampingDen]]]

\* The excitation of the scenario, and two others off the centre.
ScenarioClicks ==
    { <<Scenario.cx, Scenario.cy>>,
      <<Scenario.cx + Scenario.radius, Scenario.cy>>,
      <<Scenario.cx - Scenario.maskRadius, Scenario.cy - Scenario.radius>> }

ScenarioInit ==
    /\ variant = 16
    /\ mask = ScenarioMask
    /\ height = ScenarioZeroField
    /\ velocity = ScenarioZeroField
    /\ current = ZeroField15
    /\ previous = ZeroField15
    /\ calls = << >>
    /\ settled = ZeroState
    /\ probe = << >>
    /\ frame = 0
    /\ screen = BlankScreen
    /\ pressed = FALSE
    /\ waveSources = << >>
    /\ inputs = << >>

ScenarioExcite ==
    /\ calls = << >>
    /\ \E p \in ScenarioClicks :
        /\ velocity' = ScenarioAddWave(mask, velocity, p[1], p[2])
        /\ calls' = << AddWaveCall(p) >>
    /\ UNCHANGED <<variant, mask, height, current, previous, settled, probe, frame, screen,
                 pressed, waveSources, inputs>>

ScenarioStep ==
    /\ calls # << >>
    /\ NumCalls("update") < Scenario.updates
    /\ LET r == ScenarioUpdate(mask, height, velocity)
       IN  /\ height' = r.height
           /\ velocity' = r.velocity
           /\ probe' = Append(probe, r.height[Scenario.cy][Scenario.cx])
    /\ calls' = Append(calls, UpdateCall)
    /\ UNCHANGED <<variant, mask, current, previous, settled, frame, screen,
                 pressed, waveSources, inputs>>

ScenarioNext ==
    \/ ScenarioExcite
    \/ ScenarioStep

ScenarioSpec == ScenarioInit /\ [][ScenarioNext]_vars

\* The run was excited at the scenario's centre.
ScenarioRun ==
    /\ calls # << >>
    /\ calls[1] = AddWaveCall(<<Scenario.cx, Scenario.cy>>)

\* C14. Stability scenario: on the 50 x 50 lattice, after the excitation at
\* (25, 25), no cell holds a height of magnitude 100 or more at any of the 40
\* updates.
C14_Stability ==
    ScenarioRun =>
        \A y \in ScenarioRows, x \in ScenarioCols :
            /\ height[y][x] < Scenario.limit * ScenarioUnit
            /\ height[y][x] > -(Scenario.limit * ScenarioUnit)

\* C15. Oscillation scenario: within the 40 updates that follow the
\* excitation at (25, 25) the height at (25, 25) is strictly positive after
\* some update and strictly negative after another.
C15_Oscillation ==
    (ScenarioRun /\ Len(probe) = Scenario.updates) =>
        /\ \E i \in 1 .. Len(probe) : probe[i] > 0
        /\ \E j \in 1 .. Len(probe) : probe[j] < 0

(* --------------------------- the game loop ---------------------------- *)
\* draw of variant 16 paints a cell from a local copy h of its height,
\* clamped to [-ColourRange16, ColourRange16]; a height h counts units of
\* 1/unit. Each channel is uint8(base + |norm| * gain), norm = h / range.
ColourRange16 == 80

Background16 == <<15, 15, 25>>

Clamp16(h, unit) ==
    IF h > ColourRange16 * unit THEN ColourRange16 * unit
    ELSE IF h < -(ColourRange16 * unit) THEN -(ColourRange16 * unit)
    ELSE h

Channel16(h, unit, base, gain) ==
    (base * ColourRange16 * unit + Abs(h) * gain) \div (ColourRange16 * unit)

Colour16(h, unit) ==
    LET hc == Clamp16(h, unit)
    IN  IF hc > 0
        THEN <<Channel16(hc, unit, 40, 40), Channel16(hc, unit, 120, 60),
               Channel16(hc, unit, 150, 100)>>
        ELSE <<Channel16(hc, unit, 100, 80), Channel16(hc, unit, 100, 60),
               Channel16(hc, unit, 120, 40)>>

\* A draw that clamps the height of the grid itself.
draw16Clamping(m, h) ==
    [screen |-> [y \in Rows |-> [x \in Cols |->
                    IF m[y][x] THEN Colour16(h[y][x], Unit16) ELSE Background16]],
     height |-> [y \in Rows |-> [x \in Cols |->
                    IF m[y][x] THEN Clamp16(h[y][x], Unit16) ELSE h[y][x]]]]

\* draw: the image painted, and the height field the loops leave behind.
draw16(m, h) ==
    [screen |-> [y \in Rows |-> [x \in Cols |->
                    IF m[y][x] THEN Colour16(h[y][x], Unit16) ELSE Background16]],
     height |-> h]

\* draw of variant 15 normalises by ColourRange15 and clamps to [-1, 1].
ColourRange15 == 50

Background15 == <<20, 20, 30>>

\* the magnitude a with Unit15 divided out, Unit15 taken apart into its
\* Depth15 factors waveSpeedDen15^2 and dampingDen15
RECURSIVE MagDivUnitFrom(_)
MagDivUnitFrom(st) ==
    IF st.left = 0
    THEN st.mag
    ELSE MagDivUnitFrom(
             [left |-> st.left - 1,
              mag  |-> MagDivSmall(
                           MagDivSmall(st.mag, waveSpeedDen15 * waveSpeedDen15).quot,
                           dampingDen15).quot])

Clamp15(c) ==
    IF MagCmp(c.mag, BigMulInt(Unit15, ColourRange15).mag) > 0
    THEN Big(c.neg, BigMulInt(Unit15, ColourRange15).mag)
    ELSE c

Channel15(c, base, gain) ==
    base + Limb(MagDivSmall(MagDivUnitFrom([left |-> Depth15,
                                            mag  |-> MagMulSmall(c.mag, gain)]),
                            ColourRange15).quot, 1)

Colour15(c) ==
    LET cc == Clamp15(c)
    IN  IF cc.mag # << >> /\ ~cc.neg
        THEN <<Channel15(cc, 30, 30), Channel15(cc, 100, 80), Channel15(cc, 100, 155)>>
        ELSE <<Channel15(cc, 100, 155), Channel15(cc, 80, 80), Channel15(cc, 80, 50)>>

draw15(m, cur) ==
    [screen  |-> [y \in Rows |-> [x \in Cols |->
                     IF m[y][x] THEN Colour15(cur[y][x]) ELSE Background15]],
     current |-> cur]

\* A frame that steps the field only while the button is pressed.
GameUpdateCallsOnPress(buttonDown, p) ==
    IF buttonDown THEN << AddWaveCall(p), UpdateCall >> ELSE << >>

\* A frame that excites after the step.
GameUpdateCallsStepFirst(buttonDown, p) ==
    << UpdateCall >> \o (IF buttonDown THEN << AddWaveCall(p) >> ELSE << >>)

\* The calls Game.Update makes on the WaveGrid in one frame, the mouse button
\* being pressed or not and the cursor at p.
GameUpdateCalls(buttonDown, p) ==
    (IF buttonDown THEN << AddWaveCall(p) >> ELSE << >>) \o << UpdateCall >>

GameUpdate ==
    /\ NumCalls("update") < MaxUpdates
    /\ \E buttonDown \in BOOLEAN, p \in ClickPoints :
        LET cs == GameUpdateCalls(buttonDown, p)
            st == Replay(variant, mask, cs, 1, Here)
        IN  /\ height' = st.height
            /\ velocity' = st.velocity
            /\ current' = st.current
            /\ previous' = st.previous
            /\ settled' = st
            /\ calls' = calls \o cs
    /\ frame' = frame + 1
    /\ UNCHANGED <<variant, mask, probe, screen, pressed, waveSources, inputs>>

GameDraw16 ==
    /\ variant = 16
    /\ LET r == draw16(mask, height)
       IN  /\ screen' = r.screen
           /\ height' = r.height
    /\ UNCHANGED <<variant, mask, velocity, current, previous, calls, settled, probe, frame,
                 pressed, waveSources, inputs>>

GameDraw15 ==
    /\ variant = 15
    /\ LET r == draw15(mask, current)
       IN  /\ screen' = r.screen
           /\ current' = r.current
    /\ UNCHANGED <<variant, mask, height, velocity, previous, calls, settled, probe, frame,
                 pressed, waveSources, inputs>>

GameNext ==
    \/ GameUpdate
    \/ GameDraw16
    \/ GameDraw15

\* ebiten.RunGame: Update once per tick, Draw at any time between ticks.
GameSpec == Init /\ [][GameNext]_vars

\* C16. Frame protocol: every frame (Game.Update) calls update exactly once,
\* the mouse button pressed or not, as the last call of the frame; the calls
\* before it in the frame are addWave calls, and none follows it.
C16_FrameProtocol ==
    [][frame' # frame =>
          /\ frame' = frame + 1
          /\ Len(calls') > Len(calls)
          /\ SubSeq(calls', 1, Len(calls)) = calls
          /\ calls'[Len(calls')].op = "update"
          /\ \A i \in (Len(calls) + 1) .. (Len(calls') - 1) : calls'[i].op = "addWave"
      ]_vars

\* Two frames have run, the first without the button pressed, the second with
\* it: one update each, the addWave of the second frame before its update.
C16_Witness ==
    /\ frame = 2
    /\ Len(calls) = 3
    /\ calls[1].op = "update"
    /\ calls[2].op = "addWave"
    /\ calls[3].op = "update"

\* a field of gridHeight rows of gridWidth cells
HasLatticeSize(f) == DOMAIN f = Rows /\ \A y \in Rows : DOMAIN f[y] = Cols

\* C17. Mask immutability and fixed lattice size: no step of the game loop
\* (the addWave and update of a frame, draw) changes the mask, and after each
\* step the mask and the height, velocity, current and previous fields have
\* gridHeight rows of gridWidth cells.
C17_MaskAndSizeFixed ==
    [][/\ mask' = mask
       /\ HasLatticeSize(mask')
       /\ HasLatticeSize(height') /\ HasLatticeSize(velocity')
       /\ HasLatticeSize(current') /\ HasLatticeSize(previous')
      ]_vars

\* A frame with the button pressed on a masked cell has replaced the velocity
\* buffer (or rotated current and previous), and draw has painted the field.
C17_Witness ==
    /\ frame >= 1
    /\ NumCalls("addWave") >= 1
    /\ \/ variant = 16 /\ velocity # ZeroField /\ screen = draw16(mask, height).screen
       \/ variant = 15 /\ previous # ZeroField15 /\ screen = draw15(mask, current).screen

\* C18. Rendering is read-only: draw changes no height, velocity, current,
\* previous or mask value, also where it clamps the height it paints, and
\* after a draw that follows any interleaving of frames and draws the fields
\* are those the calls of the frames alone produce on a fresh grid.
C18_DrawReadOnly ==
    [][frame' = frame =>
          /\ Here' = Here
          /\ mask' = mask
          /\ Here' = Run(variant, mask, calls')
      ]_vars

\* draw of variant 16 has painted a cell whose height lies above the colour
\* range with the saturated crest colour, and the field still holds that height.
C18_Witness ==
    /\ variant = 16
    /\ \E y \in Rows, x \in Cols :
        /\ mask[y][x]
        /\ height[y][x] > ColourRange16 * Unit16
        /\ screen[y][x] = <<80, 180, 250>>

(* ------------------- excitation of a given strength ------------------- *)
\* The body of addWave of variant 16 with its two literals, the strength 40.0
\* and the radius 8.0, as parameters.
EnergyOf16(strength, radius, dx, dy) ==
    LET dist == ISqrt((dx * dx + dy * dy) * DistPrec * DistPrec)
        rad  == radius * DistPrec
    IN  ((strength * EnergyPrec * (rad - dist) * (rad - dist)) \div (rad * rad))
            * Pow(4, MaxUpdates)

ReachedBy16(radius, m, gridX, gridY, x, y) ==
    /\ Abs(x - gridX) <= radius /\ Abs(y - gridY) <= radius
    /\ InLattice(x, y) /\ m[y][x]
    /\ (x - gridX) * (x - gridX) + (y - gridY) * (y - gridY) <= radius * radius

\* An excitation that assigns the energy ("=" for "+=").
Excite16Assign(strength, radius, m, v, mx, my) ==
    [y \in Rows |-> [x \in Cols |->
        IF ReachedBy16(radius, m, mx, my, x, y)
        THEN EnergyOf16(strength, radius, x - mx, y - my)
        ELSE v[y][x]]]

Excite16(strength, radius, m, v, mx, my) ==
    [y \in Rows |-> [x \in Cols |->
        IF ReachedBy16(radius, m, mx, my, x, y)
        THEN v[y][x] + EnergyOf16(strength, radius, x - mx, y - my)
        ELSE v[y][x]]]

\* The body of addWave of variant 15 with its literal 20.0 as a parameter.
Excite15(strength, m, cur, mx, my) ==
    IF InLattice(mx, my) /\ m[my][mx]
    THEN [cur EXCEPT ![my][mx] = BigAdd(@, BigMulInt(Unit15, strength))]
    ELSE cur

ReferenceTerm(m, H, x, y, nx, ny) ==
    IF m[ny][nx] THEN H[ny][nx] - H[y][x] ELSE -H[y][x]

\* L of the cell (x, y) of the interior: the sum over its four axis-aligned
\* neighbours.
ReferenceL(m, H, x, y) ==
      ReferenceTerm(m, H, x, y, x, y - 1) + ReferenceTerm(m, H, x, y, x, y + 1)
    + ReferenceTerm(m, H, x, y, x - 1, y) + ReferenceTerm(m, H, x, y, x + 1, y)

\* C20. The step of variant 16 is the reference integrator: update leaves
\* each inside non-border cell with height = old height + old velocity and
\* velocity = (old velocity + c^2 * L / 4) * damping, L being the sum over the
\* four neighbours of (neighbour height - cell height) for an inside neighbour
\* and -(cell height) for a neighbour outside the mask, on the heights as the
\* integration leaves them (old height + old velocity on inside cells); the
\* divisor is 4 for any number of wall neighbours.  Stated with both sides
\* multiplied by 4.
C20_ReferenceIntegrator ==
    [][IsUpdateStep(16) =>
          LET H == [y \in Rows |-> [x \in Cols |->
                       IF Inside(x, y) THEN height[y][x] + velocity[y][x]
                       ELSE height[y][x]]]
          IN  \A y \in Rows, x \in Cols :
                  (Inside(x, y) /\ Interior(x, y)) =>
                      /\ height'[y][x] = height[y][x] + velocity[y][x]
                      /\ 4 * velocity'[y][x]
                            = (4 * velocity[y][x]
                                 + waveSpeed16 * waveSpeed16 * ReferenceL(mask, H, x, y))
                              * damping16
      ]_vars

\* update of variant 16 has run on a moving field: an inside non-border cell
\* with one, two or three wall neighbours holds a non-zero height and a
\* non-zero velocity.
C20_Witness ==
    /\ variant = 16
    /\ LastOp = "update"
    /\ \E y \in Rows, x \in Cols :
        /\ Inside(x, y) /\ Interior(x, y)
        /\ height[y][x] # 0 /\ velocity[y][x] # 0
        /\ \E n \in {<<x, y - 1>>, <<x, y + 1>>, <<x - 1, y>>, <<x + 1, y>>} :
              ~Inside(n[1], n[2])
        /\ \E n \in {<<x, y - 1>>, <<x, y + 1>>, <<x - 1, y>>, <<x + 1, y>>} :
              Inside(n[1], n[2])

\* C21. Leapfrog snapshot shift: update of variant 15 leaves in previous, for
\* every inside non-border cell, the value current held for that cell at the
\* start of the call, and leaves previous unchanged for every other cell
\* (outside the mask or on the lattice border).
C21_SnapshotShift ==
    [][IsUpdateStep(15) =>
          \A y \in Rows, x \in Cols :
              IF Inside(x, y) /\ Interior(x, y)
              THEN previous'[y][x] = current[y][x]
              ELSE previous'[y][x] = previous[y][x]
      ]_vars

\* A second update of variant 15 has run: an inside non-border cell holds a
\* non-zero previous that differs from its current.
C21_Witness ==
    /\ variant = 15
    /\ LastOp = "update"
    /\ NumCalls("update") = 2
    /\ \E y \in Rows, x \in Cols :
        /\ Inside(x, y) /\ Interior(x, y)
        /\ previous[y][x] # BigZero
        /\ previous[y][x] # current[y][x]

\* C22. Variant 16, right after an update: every cell outside the mask and
\* every cell of the lattice border, masked or not, holds velocity 0, whatever
\* it held before the call.
C22_VelocityZeroOffSweep ==
    (variant = 16 /\ LastOp = "update") =>
        \A y \in Rows, x \in Cols :
            (~Inside(x, y) \/ IsBorder(x, y)) => velocity[y][x] = 0

\* update of variant 16 has run right after an addWave on a masked border
\* cell, which gave that cell a non-zero velocity: the cell holds velocity 0.
C22_Witness ==
    /\ variant = 16
    /\ LastOp = "update"
    /\ Len(calls) >= 2
    /\ LET c == calls[Len(calls) - 1]
       IN  /\ c.op = "addWave"
           /\ InLattice(c.mx, c.my) /\ IsBorder(c.mx, c.my) /\ Inside(c.mx, c.my)
           /\ Impulse16(mask, c.mx, c.my, c.mx, c.my) # 0
           /\ velocity[c.my][c.mx] = 0

\* the squared distance of the cell (x, y) from the click c
Dist2(c, x, y) == (x - c.mx) * (x - c.mx) + (y - c.my) * (y - c.my)

\* the inside cells of the lattice within the excitation radius of the click c
Disc(c) ==
    { p \in Cols \X Rows :
        Inside(p[1], p[2]) /\ Dist2(c, p[1], p[2]) <= ExciteRadius * ExciteRadius }

\* C23. Excitation of variant 16 covers the whole disc: addWave, for a click
\* on any cell, inside the mask or not, adds to the velocity of every inside
\* cell at distance d <= radius a contribution that is non-negative, the full
\* strength 40 at d = 0, positive for d < radius, 0 at d = radius, and never
\* larger for a cell farther from the click.
C23_WholeDisc16 ==
    [][IsAddWaveStep(16) =>
          LET c == calls'[Len(calls')]
              added(p) == velocity'[p[2]][p[1]] - velocity[p[2]][p[1]]
          IN  \A p \in Disc(c) :
                  /\ added(p) >= 0
                  /\ Dist2(c, p[1], p[2]) = 0 => added(p) = ImpulseStrength16 * Unit16
                  /\ Dist2(c, p[1], p[2]) < ExciteRadius * ExciteRadius => added(p) > 0
                  /\ Dist2(c, p[1], p[2]) = ExciteRadius * ExciteRadius => added(p) = 0
                  /\ \A q \in Disc(c) :
                        Dist2(c, p[1], p[2]) <= Dist2(c, q[1], q[2])
                            => added(p) >= added(q)
      ]_vars

\* The first call is an addWave of variant 16 on a cell of the lattice outside
\* the mask: an inside cell nearer than the radius got a velocity between 0
\* and the full strength.
C23_Witness ==
    /\ variant = 16
    /\ Len(calls) = 1
    /\ LastOp = "addWave"
    /\ InLattice(calls[1].mx, calls[1].my)
    /\ ~Inside(calls[1].mx, calls[1].my)
    /\ \E p \in Disc(calls[1]) :
          velocity[p[2]][p[1]] > 0 /\ velocity[p[2]][p[1]] < ImpulseStrength16 * Unit16

\* C24. Excitation of variant 15 covers the whole disc: addWave, for a click
\* on any cell, inside the mask or not, raises current at every inside cell
\* nearer to the click than the excitation radius.
C24_WholeDisc15 ==
    [][IsAddWaveStep(15) =>
          LET c == calls'[Len(calls')]
          IN  \A p \in Disc(c) :
                  Dist2(c, p[1], p[2]) < ExciteRadius * ExciteRadius
                      => ~BigLeq(current'[p[2]][p[1]], current[p[2]][p[1]])
      ]_vars

C26_RestFixedPoint ==
    NumCalls("addWave") = 0 =>
        /\ height = ZeroField /\ velocity = ZeroField
        /\ current = ZeroField15 /\ previous = ZeroField15

\* MaxUpdates updates have run and nothing else.
C26_Witness ==
    /\ Len(calls) = MaxUpdates
    /\ NumCalls("update") = MaxUpdates
    /\ \E y \in Rows, x \in Cols : Inside(x, y) /\ Interior(x, y)

\* the cell (x, y) of the lattice holds a non-zero height or velocity in st
Disturbed16(st, x, y) ==
    InLattice(x, y) /\ (st.height[y][x] # 0 \/ st.velocity[y][x] # 0)

\* C27. Finite propagation speed in variant 16: every cell that holds a
\* non-zero height or velocity after an update held one before the call or
\* has a 4-neighbour that did.
C27_FinitePropagation ==
    [][IsUpdateStep(16) =>
          \A y \in Rows, x \in Cols :
              (height'[y][x] # 0 \/ velocity'[y][x] # 0) =>
                  \/ Disturbed16(Here, x, y)
                  \/ Disturbed16(Here, x, y - 1) \/ Disturbed16(Here, x, y + 1)
                  \/ Disturbed16(Here, x - 1, y) \/ Disturbed16(Here, x + 1, y)
      ]_vars

\* update of variant 16 has just disturbed a cell that was at rest before the
\* call, and an inside non-border cell is still at rest.
C27_Witness ==
    /\ variant = 16
    /\ LastOp = "update"
    /\ LET before == Run(16, mask, SubSeq(calls, 1, Len(calls) - 1))
       IN  \E y \in Rows, x \in Cols :
               ~Disturbed16(before, x, y) /\ Disturbed16(Here, x, y)
    /\ \E y \in Rows, x \in Cols :
          Inside(x, y) /\ Interior(x, y) /\ ~Disturbed16(Here, x, y)

(* ----------------------- the analytical variants ---------------------- *)
\* src/_mainv1.go (variant 1), src/_mainv2.go (variant 2) and
\* src/_mainx10.go (variant 10) keep no grid: Game holds the list of wave
\* sources (g.waves in variant 1, g.waveSources in the others) and the flag
\* pressed.  The particles of variant 1 are written from the waves and never
\* read by the click handling; they are left out.
MaxFrames == 3

screenWidth == 1000
screenHeight == 800
centerX == screenWidth \div 2
centerY == screenHeight \div 2

shapeRadius(v) == IF v = 1 THEN 150 ELSE 200

\* dist < shapeRadius for dist := math.Sqrt(dx*dx + dy*dy); both sides are
\* non-negative, so the comparison is made on the squares.
InsideShape(v, mx, my) ==
    (mx - centerX) * (mx - centerX) + (my - centerY) * (my - centerY)
        < shapeRadius(v) * shapeRadius(v)

\* Cursor positions tried: the centre, a point inside the circle of variants
\* 2 and 10 and on the rim of variant 1, a point on the rim of variants 2 and
\* 10, and a corner of the window.
CursorPoints ==
    { <<centerX, centerY>>, <<centerX + shapeRadius(1), centerY>>,
      <<centerX + shapeRadius(2), centerY>>, <<0, 0>> }

\* The source appended for a click at (mx, my) in frame f.  Variant 1 counts
\* the radius in halves: radius 5, maxRadius 300.
NewWave(v, mx, my, f) ==
    IF v = 1
    THEN [x |-> mx, y |-> my, radius |-> 2 * 5, maxRadius |-> 2 * 300]
    ELSE [x |-> mx, y |-> my, createdAt |-> f]

Alive(w) == w.radius <= w.maxRadius

\* "Update waves" of variant 1: each radius grows by 2.5 and a wave beyond its
\* maxRadius is removed; the other variants keep their sources.
UpdateWaves(v, ws) ==
    IF v = 1
    THEN SelectSeq([i \in 1 .. Len(ws) |-> [ws[i] EXCEPT !.radius = @ + 5]], Alive)
    ELSE ws

\* A click handling that sets pressed only for a click inside the circle.
HandleClickLatchInside(v, g, in) ==
    IF in.down
    THEN IF ~g.pressed /\ InsideShape(v, in.mx, in.my)
         THEN [pressed     |-> TRUE,
               waveSources |-> Append(g.waveSources, NewWave(v, in.mx, in.my, g.frame))]
         ELSE [pressed |-> g.pressed, waveSources |-> g.waveSources]
    ELSE [pressed |-> FALSE, waveSources |-> g.waveSources]

\* The first statement of Game.Update: g is the Game, in the button state and
\* the cursor position of the frame.
HandleClick(v, g, in) ==
    IF in.down
    THEN IF ~g.pressed
         THEN [pressed     |-> TRUE,
               waveSources |-> IF InsideShape(v, in.mx, in.my)
                               THEN Append(g.waveSources,
                                           NewWave(v, in.mx, in.my, g.frame))
                               ELSE g.waveSources]
         ELSE [pressed |-> g.pressed, waveSources |-> g.waveSources]
    ELSE [pressed |-> FALSE, waveSources |-> g.waveSources]

AnalyticInit ==
    /\ variant \in {1, 2, 10}
    /\ mask = initializeMask(1)
    /\ height = ZeroField
    /\ velocity = ZeroField
    /\ current = ZeroField15
    /\ previous = ZeroField15
    /\ calls = << >>
    /\ settled = ZeroState
    /\ probe = << >>
    /\ frame = 0
    /\ screen = BlankScreen
    /\ pressed = FALSE
    /\ waveSources = << >>
    /\ inputs = << >>

AnalyticUpdate ==
    /\ frame < MaxFrames
    /\ \E down \in BOOLEAN, p \in CursorPoints :
        LET in == [down |-> down, mx |-> p[1], my |-> p[2]]
            r  == HandleClick(variant,
                              [pressed |-> pressed, waveSources |-> waveSources,
                               frame |-> frame],
                              in)
        IN  /\ pressed' = r.pressed
            /\ waveSources' = UpdateWaves(variant, r.waveSources)
            /\ inputs' = Append(inputs, in)
    /\ frame' = frame + 1
    /\ UNCHANGED <<variant, mask, height, velocity, current, previous, calls, settled,
                   probe, screen>>

AnalyticNext == AnalyticUpdate

AnalyticSpec == AnalyticInit /\ [][AnalyticNext]_vars

\* C28. Click debounce in the analytical variants: a frame appends a source,
\* at the cursor, exactly when the button is down, pressed was false at the
\* start of the frame and the cursor is inside the circle, and never more than
\* one; pressed at the start of a frame is the button state of the frame
\* before, so a frame whose button was already down in the frame before
\* appends nothing, wherever the press started.
C28_ClickDebounce ==
    [][frame' = frame + 1 =>
          LET in         == inputs'[Len(inputs')]
              heldBefore == inputs # << >> /\ inputs[Len(inputs)].down
              appended   == Len(waveSources') = Len(waveSources) + 1
          IN  /\ Len(waveSources') <= Len(waveSources) + 1
              /\ appended <=> (in.down /\ ~pressed /\ InsideShape(variant, in.mx, in.my))
              /\ appended => /\ waveSources'[Len(waveSources')].x = in.mx
                             /\ waveSources'[Len(waveSources')].y = in.my
              /\ pressed <=> heldBefore
              /\ (in.down /\ heldBefore) => ~appended
      ]_vars

\* The button went down outside the circle and was held while the cursor
\* moved inside: no source was created.
C28_Witness ==
    /\ frame = 2
    /\ inputs[1].down /\ ~InsideShape(variant, inputs[1].mx, inputs[1].my)
    /\ inputs[2].down /\ InsideShape(variant, inputs[2].mx, inputs[2].my)
    /\ pressed
    /\ waveSources = << >>

====
